---------------------------- MODULE Spec2Model ----------------------------
(***************************************************************************)
(* A state-machine model of the additive synthesizer core in               *)
(* AdditiveSynthesizer/Source/additive_synth.h: HarmonicState, the sine    *)
(* oscillator bank, the ADSR envelope, the voice and the morphing engine.  *)
(*                                                                         *)
(* Numbers.  The program computes in float.  The model is fixed point:     *)
(*   - amplitudes, phases of a HarmonicData, envelope levels, rates and    *)
(*     velocities are integers in units of 1/One (One stands for 1.0f);    *)
(*     the literal 0.001f is THRESHOLD units, so One = 1000 * THRESHOLD;   *)
(*   - a morph amount is an integer in units of 1/MORPH_STEPS;             *)
(*   - a float division rounds to the nearest unit (FDiv), as IEEE         *)
(*     arithmetic rounds to the nearest float.                             *)
(***************************************************************************)
EXTENDS Integers, Sequences, FiniteSets, Bags

\* ------------------------------------------------------------ constants
MAX_HARMONICS == 128

\* 0.001f, the audibility threshold, in model units.
THRESHOLD == 100

\* 1.0f in model units.
One == 1000 * THRESHOLD

Half == One \div 2

\* The morph amount 1.0 in amount units (the morph slider moves in 0.01 steps).
MORPH_STEPS == 100

\* ------------------------------------------------------------ bounds
\* morphTo calls explored along one run of the HarmonicState specification.
MaxMorphs == 1

\* Longest attack, decay or release stage, in samples, of an envelope a note
\* is played on in the envelope specification.
MaxStageSamples == 5

\* prepare() and set...() calls explored while one note is active.
MaxLiveChanges == 1

\* HarmonicOscillator::getNextSample calls along one run of the bank
\* specification.
MaxBankSamples == 2

\* startNote calls along one run of the voice specification.
MaxNotes == 1

\* Largest numSamples of a renderNextBlock call.
MaxBlock == 2

\* setHarmonicState calls of the processor along one run of the two threads.
MaxPushes == 1

\* renderNextBlock calls along one run of the two threads.
MaxBlocks == 1

\* Oscillator writes of the control thread explored inside one block.
MaxBlockWrites == 1

\* ------------------------------------------------------------ float helpers
\* juce::jlimit(lo, hi, v)
jlimit(lo, hi, v) == IF v < lo THEN lo ELSE IF hi < v THEN hi ELSE v

\* a / b for b > 0, rounded to the nearest unit.
FDiv(a, b) == (a \div b) + (IF 2 * (a % b) >= b THEN 1 ELSE 0)

HarmonicIndex == 0 .. (MAX_HARMONICS - 1)

\* ------------------------------------------------------------ HarmonicData
\* HarmonicData(): amplitude 0, phase 0, disabled.
HarmonicDataDefault == [amplitude |-> 0, phase |-> 0, enabled |-> FALSE]

\* ------------------------------------------------------------ HarmonicState
\* The operations are functions from the harmonics array (and the arguments)
\* to the harmonics array after the call.

clear(h) == [i \in HarmonicIndex |-> HarmonicDataDefault]

\* setHarmonic that clamps the index into range instead of rejecting it.
setHarmonic_clampIndex(h, index, amplitude, phase) ==
    LET k == jlimit(0, MAX_HARMONICS - 1, index)
    IN  [h EXCEPT ![k] = [amplitude |-> jlimit(0, One, amplitude),
                          phase     |-> phase,
                          enabled   |-> amplitude > THRESHOLD]]

setHarmonic(h, index, amplitude, phase) ==
    IF index >= 0 /\ index < MAX_HARMONICS
    THEN [h EXCEPT ![index] = [amplitude |-> jlimit(0, One, amplitude),
                               phase     |-> phase,
                               enabled   |-> amplitude > THRESHOLD]]
    ELSE h

\* setHarmonicAmplitude that stores the amplitude without the clamp.
setHarmonicAmplitude_noClamp(h, index, amplitude) ==
    IF index >= 0 /\ index < MAX_HARMONICS
    THEN [h EXCEPT ![index].amplitude = amplitude,
                   ![index].enabled   = amplitude > THRESHOLD]
    ELSE h

setHarmonicAmplitude(h, index, amplitude) ==
    IF index >= 0 /\ index < MAX_HARMONICS
    THEN [h EXCEPT ![index].amplitude = jlimit(0, One, amplitude),
                   ![index].enabled   = amplitude > THRESHOLD]
    ELSE h

getHarmonic(h, index) ==
    IF index >= 0 /\ index < MAX_HARMONICS THEN h[index] ELSE HarmonicDataDefault

getHarmonicAmplitude(h, index) ==
    IF index >= 0 /\ index < MAX_HARMONICS THEN h[index].amplitude ELSE 0

\* self * (1 - amount) + target * amount, amount already clamped.
Lerp(a, b, amount) == FDiv(a * (MORPH_STEPS - amount) + b * amount, MORPH_STEPS)

morphTo(h, target, amount) ==
    LET t == jlimit(0, MORPH_STEPS, amount)
    IN  [i \in HarmonicIndex |->
            [h[i] EXCEPT !.amplitude = Lerp(h[i].amplitude, target[i].amplitude, t),
                         !.phase     = Lerp(h[i].phase, target[i].phase, t)]]

copyFrom(h, other) == other

\* The amplitude loadPreset writes to slot i before the enabled flags are
\* recomputed; slots it does not write keep the 0 of clear().
PresetAmplitude(presetName, i) ==
    CASE presetName = "Saw" /\ i < 32 -> FDiv(One, i + 1)
      [] presetName = "Square" /\ i < 32 /\ i % 2 = 0 -> FDiv(One, i + 1)
      [] presetName = "Triangle" /\ i < 32 /\ i % 2 = 0 ->
            LET amp == FDiv(One, (i + 1) * (i + 1))
            IN  IF i % 4 = 0 THEN amp ELSE 0 - amp
      [] presetName = "Sine" /\ i = 0 -> One
      [] presetName = "Organ" /\ i = 0 -> One
      [] presetName = "Organ" /\ i = 2 -> Half
      [] presetName = "Organ" /\ i = 4 -> FDiv(3 * One, 10)
      [] OTHER -> 0

\* The slots a preset's branch assigns.
PresetWrites(presetName, i) ==
    \/ presetName = "Saw" /\ i < 32
    \/ presetName \in {"Square", "Triangle"} /\ i < 32 /\ i % 2 = 0
    \/ presetName = "Sine" /\ i = 0
    \/ presetName = "Organ" /\ i \in {0, 2, 4}

\* loadPreset that does not clear the spectrum first.
loadPreset_noClear(h, presetName) ==
    [i \in HarmonicIndex |->
        LET a == IF PresetWrites(presetName, i)
                 THEN PresetAmplitude(presetName, i)
                 ELSE h[i].amplitude
        IN  [h[i] EXCEPT !.amplitude = a, !.enabled = a > THRESHOLD]]

loadPreset(h, presetName) ==
    LET cleared == clear(h)
    IN  [i \in HarmonicIndex |->
            LET a == IF PresetWrites(presetName, i)
                     THEN PresetAmplitude(presetName, i)
                     ELSE cleared[i].amplitude
            IN  [cleared[i] EXCEPT !.amplitude = a, !.enabled = a > THRESHOLD]]

\* ------------------------------------------------------------ EnvelopeProcessor
\* Times are integers in units of 1/TICKS_PER_SECOND second; the sample rate
\* is in Hz; a rate is the level change per sample, in units of 1/One.
TICKS_PER_SECOND == 10 * 1000

\* The member initialisers of EnvelopeProcessor.
EnvelopeDefault ==
    [currentState |-> "Idle",
     sampleRate   |-> 44100,
     currentLevel |-> 0,
     attackTime   |-> TICKS_PER_SECOND \div 100,
     decayTime    |-> TICKS_PER_SECOND \div 10,
     sustainLevel |-> (7 * One) \div 10,
     releaseTime  |-> TICKS_PER_SECOND \div 2,
     attackRate   |-> 0,
     decayRate    |-> 0,
     releaseRate  |-> 0]

calculateRates(e) ==
    [e EXCEPT
        !.attackRate  = FDiv(One * TICKS_PER_SECOND, e.attackTime * e.sampleRate),
        !.decayRate   = FDiv((One - e.sustainLevel) * TICKS_PER_SECOND,
                             e.decayTime * e.sampleRate),
        !.releaseRate = FDiv(e.sustainLevel * TICKS_PER_SECOND,
                             e.releaseTime * e.sampleRate)]

envPrepare(e, sr) == calculateRates([e EXCEPT !.sampleRate = sr])

\* noteOn() that restarts the attack from the level the envelope is at.
envNoteOn_keepsLevel(e) == [e EXCEPT !.currentState = "Attack"]

envNoteOn(e) == [e EXCEPT !.currentState = "Attack", !.currentLevel = 0]

envNoteOff(e) == [e EXCEPT !.currentState = "Release"]

setAttack(e, seconds) == calculateRates([e EXCEPT !.attackTime = seconds])

setDecay(e, seconds) == calculateRates([e EXCEPT !.decayTime = seconds])

\* setSustain that stores the level without the clamp.
setSustain_noClamp(e, level) == [e EXCEPT !.sustainLevel = level]

setSustain(e, level) == [e EXCEPT !.sustainLevel = jlimit(0, One, level)]

setRelease(e, seconds) == calculateRates([e EXCEPT !.releaseTime = seconds])

\* envGetNextSample without the clamp at the end of the attack.
envGetNextSample_attackOvershoots(e) ==
    CASE e.currentState = "Idle" -> e
      [] e.currentState = "Attack" ->
            LET l == e.currentLevel + e.attackRate
            IN  IF l >= One
                THEN [e EXCEPT !.currentLevel = l, !.currentState = "Decay"]
                ELSE [e EXCEPT !.currentLevel = l]
      [] e.currentState = "Decay" ->
            LET l == e.currentLevel - e.decayRate
            IN  IF l <= e.sustainLevel
                THEN [e EXCEPT !.currentLevel = e.sustainLevel, !.currentState = "Sustain"]
                ELSE [e EXCEPT !.currentLevel = l]
      [] e.currentState = "Sustain" ->
            [e EXCEPT !.currentLevel = e.sustainLevel]
      [] e.currentState = "Release" ->
            LET l == e.currentLevel - e.releaseRate
            IN  IF l <= 0
                THEN [e EXCEPT !.currentLevel = 0, !.currentState = "Idle"]
                ELSE [e EXCEPT !.currentLevel = l]

\* The envelope after one getNextSample() call.
envGetNextSample(e) ==
    CASE e.currentState = "Idle" -> e
      [] e.currentState = "Attack" ->
            LET l == e.currentLevel + e.attackRate
            IN  IF l >= One
                THEN [e EXCEPT !.currentLevel = One, !.currentState = "Decay"]
                ELSE [e EXCEPT !.currentLevel = l]
      [] e.currentState = "Decay" ->
            LET l == e.currentLevel - e.decayRate
            IN  IF l <= e.sustainLevel
                THEN [e EXCEPT !.currentLevel = e.sustainLevel, !.currentState = "Sustain"]
                ELSE [e EXCEPT !.currentLevel = l]
      [] e.currentState = "Sustain" ->
            [e EXCEPT !.currentLevel = e.sustainLevel]
      [] e.currentState = "Release" ->
            LET l == e.currentLevel - e.releaseRate
            IN  IF l <= 0
                THEN [e EXCEPT !.currentLevel = 0, !.currentState = "Idle"]
                ELSE [e EXCEPT !.currentLevel = l]

\* The value that getNextSample() call returns.
envSampleValue(e) ==
    IF e.currentState = "Idle" THEN 0 ELSE envGetNextSample(e).currentLevel

isActive(e) == e.currentState # "Idle"

\* ------------------------------------------------------------ SineWaveGenerator
\* Phases are integers in units of 1/TWO_PI of a turn (Constants::TWO_PI is
\* one turn); frequencies and sample rates are in Hz.
TWO_PI == 360

\* a * b for fixed-point a and b (units of 1/One), rounded, without leaving
\* the 32-bit range of the model checker's integers.
Product[p \in Int \X Int] ==
    LET a == p[1]
        b == p[2]
        r == a % One
    IN  (a \div One) * b
        + FDiv(r * (b \div 1000), One \div 1000)
        + FDiv(r * (b % 1000), One)

FMul(a, b) == Product[<<a, b>>]

\* std::sin of a phase, in units of 1/One (Bhaskara's rational approximation
\* on a half turn, exact at 0, a quarter turn and a half turn).
Sin(phase) ==
    LET x == phase % TWO_PI
        h == TWO_PI \div 2
        y == IF x < h THEN x ELSE x - h
        p == y * (h - y)
        v == FDiv(4 * p * 1000, (5 * h * h) \div 4 - p) * (One \div 1000)
    IN  IF x < h THEN v ELSE 0 - v

\* The member initialisers of SineWaveGenerator.
SineWaveGeneratorDefault ==
    [sampleRate     |-> 44100,
     frequency      |-> 440,
     amplitude      |-> 0,
     currentPhase   |-> 0,
     phaseIncrement |-> 0]

updatePhaseIncrement(o) ==
    [o EXCEPT !.phaseIncrement = FDiv(TWO_PI * o.frequency, o.sampleRate)]

oscPrepare(o, sr) == updatePhaseIncrement([o EXCEPT !.sampleRate = sr])

oscReset(o) == [o EXCEPT !.currentPhase = 0]

oscSetFrequency(o, freq) == updatePhaseIncrement([o EXCEPT !.frequency = freq])

oscSetAmplitude(o, amp) == [o EXCEPT !.amplitude = jlimit(0, One, amp)]

\* The oscillator after one getNextSample() call.
oscGetNextSample(o) ==
    IF o.amplitude < THRESHOLD
    THEN o
    ELSE LET p == o.currentPhase + o.phaseIncrement
         IN  [o EXCEPT !.currentPhase = IF p >= TWO_PI THEN p - TWO_PI ELSE p]

\* The value that getNextSample() call returns.
oscSampleValue(o) ==
    IF o.amplitude < THRESHOLD THEN 0 ELSE FMul(o.amplitude, Sin(o.currentPhase))

\* ------------------------------------------------------------ HarmonicOscillator
\* The member initialisers of HarmonicOscillator.
HarmonicOscillatorDefault ==
    [oscillators          |-> [i \in HarmonicIndex |-> SineWaveGeneratorDefault],
     fundamentalFrequency |-> 440,
     masterGain           |-> Half]

bankPrepare(b, sr) ==
    [b EXCEPT !.oscillators = [i \in HarmonicIndex |-> oscPrepare(b.oscillators[i], sr)]]

bankReset(b) ==
    [b EXCEPT !.oscillators = [i \in HarmonicIndex |-> oscReset(b.oscillators[i])]]

updateOscillatorFrequencies(b) ==
    [b EXCEPT !.oscillators =
        [i \in HarmonicIndex |->
            oscSetFrequency(b.oscillators[i], b.fundamentalFrequency * (i + 1))]]

bankSetFrequency(b, freq) ==
    updateOscillatorFrequencies([b EXCEPT !.fundamentalFrequency = freq])

bankSetHarmonicState(b, state) ==
    [b EXCEPT !.oscillators =
        [i \in HarmonicIndex |->
            oscSetAmplitude(b.oscillators[i], getHarmonicAmplitude(state, i))]]

bankSetGain(b, gain) == [b EXCEPT !.masterGain = gain]

\* One iteration of the loop of HarmonicOscillator::getNextSample on
\* oscillator o:
\*     if (o.getNextSample() != 0.0f) sample += o.getNextSample();
\* The second call is made when the first returned a non-zero value.
SecondCall(o) == oscSampleValue(o) # 0

\* The oscillator after the iteration.
loopOscillator(o) ==
    IF SecondCall(o)
    THEN oscGetNextSample(oscGetNextSample(o))
    ELSE oscGetNextSample(o)

\* What the iteration adds to the sum: the value of the second call.
loopAdded(o) ==
    IF SecondCall(o) THEN oscSampleValue(oscGetNextSample(o)) ELSE 0

\* How many times the iteration calls o.getNextSample().
loopCalls(o) == IF SecondCall(o) THEN 2 ELSE 1

\* The sum of f[i] over the domain of f: the positive terms and the negative
\* terms are counted as two bags.
Sum(f) ==
    LET pos == [i \in {j \in DOMAIN f : f[j] > 0} |-> f[i]]
        neg == [i \in {j \in DOMAIN f : f[j] < 0} |-> 0 - f[i]]
    IN  BagCardinality(pos) - BagCardinality(neg)

\* The bank after one HarmonicOscillator::getNextSample() call.
bankGetNextSample(b) ==
    [b EXCEPT !.oscillators =
        [i \in HarmonicIndex |-> loopOscillator(b.oscillators[i])]]

\* The value that getNextSample() call returns.
bankSampleValue(b) ==
    FMul(Sum([i \in HarmonicIndex |-> loopAdded(b.oscillators[i])]),
         b.masterGain)

\* The getNextSample() calls it makes on each oscillator.
bankSampleCalls(b) == [i \in HarmonicIndex |-> loopCalls(b.oscillators[i])]

\* The amplitudes of the oscillators of a bank.
Amplitudes(b) == [i \in HarmonicIndex |-> b.oscillators[i].amplitude]

\* ------------------------------------------------------------ AdditiveVoice
\* 2^(s/12) for s = 0 .. 11, in units of 1/10000.
SemitoneRatio ==
    <<10000, 10595, 11225, 11892, 12599, 13348,
      14142, 14983, 15874, 16818, 17818, 18877>>

RECURSIVE Pow2(_)
Pow2(k) == IF k <= 0 THEN 1 ELSE 2 * Pow2(k - 1)

\* 440.0f * std::pow(2.0f, (midiNoteNumber - 69) / 12.0f), in Hz.
midiToFrequency(midiNoteNumber) ==
    LET d      == midiNoteNumber - 69
        octave == d \div 12
        ratio  == SemitoneRatio[(d % 12) + 1]
    IN  IF octave >= 0
        THEN FDiv(440 * ratio * Pow2(octave), 10000)
        ELSE FDiv(440 * ratio, 10000 * Pow2(0 - octave))

\* juce::SynthesiserVoice::clearCurrentNote(): the voice plays no note.
NoNote == 0 - 1

RECURSIVE renderEnvelope(_, _)
\* The sample loop of renderNextBlock, numSamples iterations from envelope e
\* and bank b: the envelope afterwards,
renderEnvelope(e, numSamples) ==
    IF numSamples = 0 THEN e
    ELSE renderEnvelope(envGetNextSample(e), numSamples - 1)

RECURSIVE renderOscillator(_, _)
\* the bank afterwards,
renderOscillator(b, numSamples) ==
    IF numSamples = 0 THEN b
    ELSE renderOscillator(bankGetNextSample(b), numSamples - 1)

RECURSIVE renderOut(_, _, _, _)
\* and the samples added to the output buffer.
renderOut(e, b, velocity, numSamples) ==
    IF numSamples = 0 THEN <<>>
    ELSE LET envLevel == envSampleValue(e)
             sample   == FMul(FMul(bankSampleValue(b), envLevel), velocity)
         IN  <<sample>> \o renderOut(envGetNextSample(e), bankGetNextSample(b),
                                     velocity, numSamples - 1)

\* AdditiveVoice::setEnvelope
voiceSetEnvelope(e, attack, decay, sustain, release) ==
    setRelease(setSustain(setDecay(setAttack(e, attack), decay), sustain), release)

\* ------------------------------------------------------------ MorphingEngine
\* The member initialisers of MorphingEngine; a HarmonicState member is
\* constructed cleared.
MorphingEngineDefault ==
    [sourceState |-> clear(<<>>),
     targetState |-> clear(<<>>),
     morphAmount |-> 0]

setSourceState(e, source) ==
    [e EXCEPT !.sourceState = copyFrom(e.sourceState, source)]

setTargetState(e, target) ==
    [e EXCEPT !.targetState = copyFrom(e.targetState, target)]

setMorphAmount(e, amount) ==
    [e EXCEPT !.morphAmount = jlimit(0, MORPH_STEPS, amount)]

\* getCurrentState that morphs the stored source in place.
getCurrentState_inPlace(e) ==
    [e EXCEPT !.sourceState = morphTo(e.sourceState, e.targetState, e.morphAmount)]

\* The engine after one getCurrentState() call: a const member function, which
\* works on the local result.
getCurrentState(e) == e

\* The spectrum that getCurrentState() call returns.
currentStateValue(e) ==
    LET result == clear(<<>>)
    IN  morphTo(copyFrom(result, e.sourceState), e.targetState, e.morphAmount)

\* ------------------------------------------------------------ inputs
PresetNames == {"Saw", "Square", "Triangle", "Sine", "Organ"}

PresetInputs == PresetNames \cup {"", "Noise"}

IndexInputs == {-1, 2, MAX_HARMONICS}

InRange(i) == i >= 0 /\ i < MAX_HARMONICS

AmplitudeInputs == {0 - Half, THRESHOLD, THRESHOLD + 1, Half, One + Half}

PhaseInputs == {0, Half}

SampleRateInputs == {22050, 44100}

\* 0.1 ms and 0.2 ms.
TimeInputs == {1, 2}

SustainInputs == {0 - Half, Half, One + Half}

\* An octave below A4, and A4.
FrequencyInputs == {220, 440}

\* C#7 and C#8.
NoteInputs == {109}

VelocityInputs == {One}

VoiceSampleRateInputs == {44100}

GainInputs == {One}

\* Spectra pushed into an oscillator bank: the Sine preset, and the Saw preset
\* with the last harmonic raised.
BankSpectrumInputs ==
    {loadPreset(clear(<<>>), "Sine"),
     setHarmonic(loadPreset(clear(<<>>), "Saw"), MAX_HARMONICS - 1, One, 0)}

\* Spectra pushed into a voice.
VoiceSpectrumInputs == {loadPreset(clear(<<>>), "Sine")}

\* (attack, decay, sustain, release) of setEnvelope.
EnvelopeInputs == {<<1, 1, 0, 1>>, <<1, 2, Half, 1>>}

\* Attack times of the attack scenario: 0.1 ms, 0.2 ms, 1 ms, 10 ms.
AttackTimeInputs == {1, 2, 10, 100}

AttackSampleRateInputs == {22050, 44100, 48000}

AmountInputs == {0 - 25, 0, 50, MORPH_STEPS, MORPH_STEPS + 25}

\* Presets the caller of the morphing engine loads into its spectrum.
EnginePresetInputs == {"Saw", "Sine"}

\* Spectra passed by reference to morphTo and copyFrom: HarmonicState values
\* built by the operations above from a freshly constructed object.
SpectrumInputs ==
    {loadPreset(clear(<<>>), n) : n \in PresetNames}
    \cup {setHarmonic(clear(<<>>), 2, Half, Half),
          setHarmonic(loadPreset(clear(<<>>), "Saw"), MAX_HARMONICS - 1, One, One)}

\* ------------------------------------------------------------ state
VARIABLES
    harmonics,     \* HarmonicState::harmonics of the object under test
    nMorphs,       \* morphTo calls so far (bounded by MaxMorphs)
    lastOp,        \* name of the last HarmonicState operation applied
    envelope,      \* the members of an EnvelopeProcessor
    releasedFrom,  \* the state the last noteOff() found the envelope in;
                   \* "none" when no noteOff() came since the last noteOn()
    liveChanges,   \* prepare() and set...() calls made on the active envelope
                   \* since the last noteOn() (bounded by MaxLiveChanges)
    levelAtNoteOn, \* the currentLevel the last noteOn() found, while no sample
                   \* has been taken since that noteOn(); -1 otherwise
    oscillator,    \* the members of a HarmonicOscillator
    oscCalls,      \* per oscillator, the getNextSample() calls the last
                   \* HarmonicOscillator::getNextSample() made on it
    bankValue,     \* the value the last HarmonicOscillator::getNextSample() returned
    bankSamples,   \* HarmonicOscillator::getNextSample() calls so far
    currentVelocity,       \* AdditiveVoice::currentVelocity
    currentlyPlayingNote,  \* juce::SynthesiserVoice: the note played, NoNote when free
    rendered,      \* the samples the last renderNextBlock() added to the buffer
    stopMode,      \* "tail" / "hard": the stopNote() since the last startNote(); else "none"
    notesStarted,  \* startNote() calls so far (bounded by MaxNotes)
    pc,            \* attack scenario: "new", "prepared", "configured", "playing"
    attackCalls,   \* attack scenario: getNextSample() calls since noteOn()
    morphingEngine,  \* the members of a MorphingEngine
    morphedState,    \* the spectrum the last getCurrentState() returned
    lastEngineOp,    \* name of the last MorphingEngine operation applied
    ctlPc,           \* control thread inside updateVoicesWithHarmonicState: the
                     \* oscillator it writes next; MAX_HARMONICS outside
    pushes,          \* setHarmonicState calls of the processor so far
    samplesLeft,     \* audio thread inside renderNextBlock: iterations of the
                     \* sample loop still to run; 0 outside
    blocksStarted,   \* renderNextBlock calls of the audio thread so far
    blockAmplitudes, \* the oscillator amplitudes when the current block began
    blockWrites      \* oscillator writes of the control thread since the current
                     \* block began (bounded by MaxBlockWrites)

harmonicVars == <<harmonics, nMorphs, lastOp>>

envelopeVars == <<envelope, releasedFrom, liveChanges, levelAtNoteOn>>

bankVars == <<oscillator, oscCalls, bankValue, bankSamples>>

voiceVars == <<currentVelocity, currentlyPlayingNote, rendered, stopMode, notesStarted>>

attackVars == <<pc, attackCalls>>

engineVars == <<morphingEngine, morphedState, lastEngineOp>>

threadVars ==
    <<ctlPc, pushes, samplesLeft, blocksStarted, blockAmplitudes, blockWrites>>

vars ==
    <<harmonicVars, envelopeVars, bankVars, voiceVars, attackVars, engineVars,
      threadVars>>

otherThanHarmonic ==
    <<envelopeVars, bankVars, voiceVars, attackVars, engineVars, threadVars>>

otherThanEnvelope ==
    <<harmonicVars, bankVars, voiceVars, attackVars, engineVars, threadVars>>

otherThanBank ==
    <<harmonicVars, envelopeVars, voiceVars, attackVars, engineVars, threadVars>>

\* The voice owns envelope and oscillator.
otherThanVoice ==
    <<harmonicVars, releasedFrom, levelAtNoteOn, oscCalls, bankValue, bankSamples,
      attackVars,
      engineVars, threadVars>>

otherThanAttack ==
    <<harmonicVars, releasedFrom, liveChanges, levelAtNoteOn, bankVars, voiceVars,
      engineVars,
      threadVars>>

\* The engine is handed the caller's spectrum, harmonics.
otherThanEngine ==
    <<harmonicVars, envelopeVars, bankVars, voiceVars, attackVars, threadVars>>

\* The two threads share the processor's spectrum and one voice.
otherThanThreads ==
    <<nMorphs, lastOp, releasedFrom, liveChanges, levelAtNoteOn, oscCalls, bankValue,
      bankSamples,
      attackVars, engineVars>>

\* HarmonicState() { clear(); }
HarmonicInit ==
    /\ harmonics = clear(<<>>)
    /\ nMorphs = 0
    /\ lastOp = "construct"

EnvelopeInit ==
    /\ envelope = EnvelopeDefault
    /\ releasedFrom = "none"
    /\ liveChanges = 0
    /\ levelAtNoteOn = -1

BankInit ==
    /\ oscillator = HarmonicOscillatorDefault
    /\ oscCalls = [i \in HarmonicIndex |-> 0]
    /\ bankValue = 0
    /\ bankSamples = 0

VoiceInit ==
    /\ currentVelocity = One
    /\ currentlyPlayingNote = NoNote
    /\ rendered = <<>>
    /\ stopMode = "none"
    /\ notesStarted = 0

AttackInit ==
    /\ pc = "new"
    /\ attackCalls = 0

EngineInit ==
    /\ morphingEngine = MorphingEngineDefault
    /\ morphedState = clear(<<>>)
    /\ lastEngineOp = "construct"

ThreadInit ==
    /\ ctlPc = MAX_HARMONICS
    /\ pushes = 0
    /\ samplesLeft = 0
    /\ blocksStarted = 0
    /\ blockAmplitudes = Amplitudes(HarmonicOscillatorDefault)
    /\ blockWrites = 0

\* The state after construction of every object.
Init ==
    /\ HarmonicInit
    /\ EnvelopeInit
    /\ BankInit
    /\ VoiceInit
    /\ AttackInit
    /\ EngineInit
    /\ ThreadInit

\* ------------------------------------------------------------ HarmonicState actions
SetHarmonic(index, amplitude, phase) ==
    /\ harmonics' = setHarmonic(harmonics, index, amplitude, phase)
    /\ lastOp' = "setHarmonic"
    /\ UNCHANGED <<nMorphs, otherThanHarmonic>>

SetHarmonicAmplitude(index, amplitude) ==
    /\ harmonics' = setHarmonicAmplitude(harmonics, index, amplitude)
    /\ lastOp' = "setHarmonicAmplitude"
    /\ UNCHANGED <<nMorphs, otherThanHarmonic>>

MorphTo(target, amount) ==
    /\ nMorphs < MaxMorphs
    /\ harmonics' = morphTo(harmonics, target, amount)
    /\ nMorphs' = nMorphs + 1
    /\ lastOp' = "morphTo"
    /\ UNCHANGED otherThanHarmonic

CopyFrom(other) ==
    /\ harmonics' = copyFrom(harmonics, other)
    /\ lastOp' = "copyFrom"
    /\ UNCHANGED <<nMorphs, otherThanHarmonic>>

Clear ==
    /\ harmonics' = clear(harmonics)
    /\ lastOp' = "clear"
    /\ UNCHANGED <<nMorphs, otherThanHarmonic>>

LoadPreset(presetName) ==
    /\ harmonics' = loadPreset(harmonics, presetName)
    /\ lastOp' = "loadPreset"
    /\ UNCHANGED <<nMorphs, otherThanHarmonic>>

HarmonicNext ==
    \/ \E n \in PresetInputs : LoadPreset(n)
    \/ Clear
    \/ \E t \in SpectrumInputs, m \in AmountInputs : MorphTo(t, m)
    \/ \E o \in SpectrumInputs : CopyFrom(o)
    \/ \E i \in IndexInputs, a \in AmplitudeInputs, p \in PhaseInputs : SetHarmonic(i, a, p)
    \/ \E i \in IndexInputs, a \in AmplitudeInputs : SetHarmonicAmplitude(i, a)

SpecHarmonic == Init /\ [][HarmonicNext]_vars

\* ------------------------------------------------------------ MorphingEngine actions
\* The caller passes its own spectrum, harmonics, by reference, and may change
\* it afterwards with loadPreset or clear.
EngSetSourceState ==
    /\ morphingEngine' = setSourceState(morphingEngine, harmonics)
    /\ lastEngineOp' = "setSourceState"
    /\ UNCHANGED <<morphedState, otherThanEngine>>

EngSetTargetState ==
    /\ morphingEngine' = setTargetState(morphingEngine, harmonics)
    /\ lastEngineOp' = "setTargetState"
    /\ UNCHANGED <<morphedState, otherThanEngine>>

EngSetMorphAmount(amount) ==
    /\ morphingEngine' = setMorphAmount(morphingEngine, amount)
    /\ lastEngineOp' = "setMorphAmount"
    /\ UNCHANGED <<morphedState, otherThanEngine>>

EngGetCurrentState ==
    /\ morphingEngine' = getCurrentState(morphingEngine)
    /\ morphedState' = currentStateValue(morphingEngine)
    /\ lastEngineOp' = "getCurrentState"
    /\ UNCHANGED otherThanEngine

EngineNext ==
    \/ EngSetSourceState
    \/ EngSetTargetState
    \/ \E a \in AmountInputs : EngSetMorphAmount(a)
    \/ EngGetCurrentState
    \/ \E n \in EnginePresetInputs : LoadPreset(n)
    \/ Clear

SpecEngine == Init /\ [][EngineNext]_vars

\* ------------------------------------------------------------ control and audio threads
\* AdditiveSynthAudioProcessor::setHarmonicState runs on the control (message)
\* thread and AdditiveVoice::renderNextBlock on the audio thread, on the same
\* voice and with no lock or atomic between them.  The steps of each thread
\* interleave; a step of the control thread is one oscillator's setAmplitude,
\* a step of the audio thread one iteration of the sample loop.
CtlSetHarmonicState(state) ==
    /\ ctlPc = MAX_HARMONICS
    /\ pushes < MaxPushes
    /\ harmonics' = copyFrom(harmonics, state)
    /\ ctlPc' = 0
    /\ pushes' = pushes + 1
    /\ UNCHANGED <<envelope, oscillator, voiceVars, samplesLeft, blocksStarted,
                   blockAmplitudes, blockWrites, otherThanThreads>>

\* One iteration of the loop of HarmonicOscillator::setHarmonicState, called
\* from updateVoicesWithHarmonicState.
CtlWriteOscillator ==
    /\ ctlPc < MAX_HARMONICS
    /\ IF samplesLeft > 0
       THEN blockWrites < MaxBlockWrites /\ blockWrites' = blockWrites + 1
       ELSE UNCHANGED blockWrites
    /\ oscillator' =
           [oscillator EXCEPT !.oscillators[ctlPc] =
               oscSetAmplitude(@, getHarmonicAmplitude(harmonics, ctlPc))]
    /\ ctlPc' = ctlPc + 1
    /\ UNCHANGED <<harmonics, envelope, voiceVars, pushes, samplesLeft,
                   blocksStarted, blockAmplitudes, otherThanThreads>>

AudioStartNote(midiNoteNumber, velocity) ==
    /\ samplesLeft = 0
    /\ notesStarted < MaxNotes
    /\ currentlyPlayingNote' = midiNoteNumber
    /\ currentVelocity' = velocity
    /\ oscillator' = bankSetFrequency(oscillator, midiToFrequency(midiNoteNumber))
    /\ envelope' = envNoteOn(envelope)
    /\ notesStarted' = notesStarted + 1
    /\ UNCHANGED <<harmonics, rendered, stopMode, threadVars, otherThanThreads>>

\* renderNextBlock up to its sample loop.
AudioBeginBlock(numSamples) ==
    /\ samplesLeft = 0
    /\ blocksStarted < MaxBlocks
    /\ blocksStarted' = blocksStarted + 1
    /\ IF ~isActive(envelope)
       THEN /\ currentlyPlayingNote' = NoNote
            /\ UNCHANGED <<samplesLeft, blockAmplitudes, blockWrites>>
       ELSE /\ samplesLeft' = numSamples
            /\ blockAmplitudes' = Amplitudes(oscillator)
            /\ blockWrites' = 0
            /\ UNCHANGED currentlyPlayingNote
    /\ rendered' = <<>>
    /\ UNCHANGED <<harmonics, envelope, oscillator, currentVelocity, stopMode,
                   notesStarted, ctlPc, pushes, otherThanThreads>>

\* One iteration of the sample loop of renderNextBlock.
AudioSample ==
    /\ samplesLeft > 0
    /\ envelope' = envGetNextSample(envelope)
    /\ oscillator' = bankGetNextSample(oscillator)
    /\ rendered' = rendered \o renderOut(envelope, oscillator, currentVelocity, 1)
    /\ samplesLeft' = samplesLeft - 1
    /\ UNCHANGED <<harmonics, currentVelocity, currentlyPlayingNote, stopMode,
                   notesStarted, ctlPc, pushes, blocksStarted, blockAmplitudes,
                   blockWrites, otherThanThreads>>

ThreadsNext ==
    \/ \E st \in BankSpectrumInputs : CtlSetHarmonicState(st)
    \/ CtlWriteOscillator
    \/ \E n \in NoteInputs, v \in VelocityInputs : AudioStartNote(n, v)
    \/ \E n \in 1 .. MaxBlock : AudioBeginBlock(n)
    \/ AudioSample

SpecThreads == Init /\ [][ThreadsNext]_vars

\* ------------------------------------------------------------ claims: threads
\* The oscillator amplitudes that a complete spectrum gives.
CompleteAmplitudes ==
    {Amplitudes(bankSetHarmonicState(HarmonicOscillatorDefault, st)) :
         st \in BankSpectrumInputs \cup {clear(<<>>)}}

\* C14: a render never observes a partially written setHarmonicState: every
\* iteration of the sample loop of a block finds the oscillator amplitudes of
\* one complete spectrum, the same as when the block began.
C14_NoTornSpectrum ==
    [][AudioSample =>
          /\ Amplitudes(oscillator) \in CompleteAmplitudes
          /\ Amplitudes(oscillator) = blockAmplitudes]_vars

\* ------------------------------------------------------------ claims: MorphingEngine
\* C12: a getCurrentState call leaves the stored source, target and morphAmount
\* unchanged; a call that follows another one with no engine setter in between
\* returns an equal spectrum; and a change the caller makes to a spectrum it
\* passed to setSourceState or setTargetState does not change the engine's
\* copies.
C12_GetCurrentStateIsPure ==
    [][/\ EngGetCurrentState =>
              /\ morphingEngine'.sourceState = morphingEngine.sourceState
              /\ morphingEngine'.targetState = morphingEngine.targetState
              /\ morphingEngine'.morphAmount = morphingEngine.morphAmount
              /\ lastEngineOp = "getCurrentState" => morphedState' = morphedState
       /\ harmonics' # harmonics => morphingEngine' = morphingEngine]_vars

\* getCurrentState has just returned the blend, at amount 0.5, of the Saw
\* source and the Sine target the engine had copied, after the caller cleared
\* the spectrum it had passed.
C12_Witness ==
    /\ lastEngineOp = "getCurrentState"
    /\ morphingEngine.sourceState = loadPreset(clear(<<>>), "Saw")
    /\ morphingEngine.targetState = loadPreset(clear(<<>>), "Sine")
    /\ 2 * morphingEngine.morphAmount = MORPH_STEPS
    /\ harmonics = clear(<<>>)
    /\ morphedState[0].amplitude = One
    /\ 4 * morphedState[1].amplitude = One

\* ------------------------------------------------------------ claims: HarmonicState
\* clamp(a, 0, 1) as the claims state it.
ClampUnit(a) == IF a < 0 THEN 0 ELSE IF a > One THEN One ELSE a

OutOfRangeInputs == {i \in IndexInputs : ~InRange(i)}

InRangeInputs == {i \in IndexInputs : InRange(i)}

\* C1: in every reachable state of a HarmonicState every slot's enabled flag
\* equals (amplitude > 0.001).
C1_EnabledMatchesAmplitude ==
    \A i \in HarmonicIndex :
        harmonics[i].enabled = (harmonics[i].amplitude > THRESHOLD)

\* C2: in every reachable state of a HarmonicState every slot's amplitude lies
\* in [0, 1].
C2_AmplitudeInUnitRange ==
    \A i \in HarmonicIndex :
        harmonics[i].amplitude >= 0 /\ harmonics[i].amplitude <= One

\* C3: after setHarmonicAmplitude(i, a) with i in range, getHarmonicAmplitude(i)
\* is clamp(a, 0, 1), slot i is enabled iff clamp(a, 0, 1) > 0.001, and slot i's
\* phase and every other slot are as before.
C3_SetAmplitudeClamps ==
    [][\A i \in InRangeInputs, a \in AmplitudeInputs :
          SetHarmonicAmplitude(i, a) =>
              /\ getHarmonicAmplitude(harmonics', i) = ClampUnit(a)
              /\ harmonics'[i].enabled = (ClampUnit(a) > THRESHOLD)
              /\ harmonics'[i].phase = harmonics[i].phase
              /\ \A j \in HarmonicIndex \ {i} : harmonics'[j] = harmonics[j]]_vars

\* A setHarmonicAmplitude call with an input above 1 has just written slot 2,
\* whose phase an earlier setHarmonic had set.
C3_Witness ==
    /\ lastOp = "setHarmonicAmplitude"
    /\ harmonics[2] = [amplitude |-> One, phase |-> Half, enabled |-> TRUE]

\* C4: for an index outside [0, 128) the getters return 0 and a zero, disabled
\* slot in every reachable state, and setHarmonic and setHarmonicAmplitude
\* leave all slots unchanged.
C4_OutOfRangeIgnored ==
    /\ [](\A i \in OutOfRangeInputs :
            /\ getHarmonicAmplitude(harmonics, i) = 0
            /\ getHarmonic(harmonics, i) =
                   [amplitude |-> 0, phase |-> 0, enabled |-> FALSE])
    /\ [][\A i \in OutOfRangeInputs, a \in AmplitudeInputs :
            /\ SetHarmonicAmplitude(i, a) => harmonics' = harmonics
            /\ \A p \in PhaseInputs :
                   SetHarmonic(i, a, p) => harmonics' = harmonics]_vars

\* An out-of-range setHarmonic has just been applied to a spectrum holding the
\* Saw preset, which is still intact.
C4_Witness ==
    /\ lastOp = "setHarmonic"
    /\ harmonics = loadPreset(clear(<<>>), "Saw")

\* C11: after self.morphTo(target, amount), with t = clamp(amount, 0, 1), every
\* slot's amplitude and phase are self_old * (1 - t) + target * t; amount <= 0
\* leaves self unchanged, amount >= 1 makes self equal to target, and
\* amount = 0.5 gives the arithmetic mean of the two (to the rounding of one
\* unit).
C11_MorphInterpolates ==
    [][\A target \in SpectrumInputs, amount \in AmountInputs :
          MorphTo(target, amount) =>
              LET t == IF amount < 0 THEN 0
                       ELSE IF amount > MORPH_STEPS THEN MORPH_STEPS ELSE amount
              IN  /\ \A i \in HarmonicIndex :
                         /\ harmonics'[i].amplitude =
                                FDiv(harmonics[i].amplitude * (MORPH_STEPS - t)
                                         + target[i].amplitude * t, MORPH_STEPS)
                         /\ harmonics'[i].phase =
                                FDiv(harmonics[i].phase * (MORPH_STEPS - t)
                                         + target[i].phase * t, MORPH_STEPS)
                  /\ amount <= 0 => harmonics' = harmonics
                  /\ amount >= MORPH_STEPS => harmonics' = target
                  /\ 2 * amount = MORPH_STEPS =>
                         \A i \in HarmonicIndex :
                             /\ 2 * harmonics'[i].amplitude - 1
                                    <= harmonics[i].amplitude + target[i].amplitude
                             /\ harmonics[i].amplitude + target[i].amplitude
                                    <= 2 * harmonics'[i].amplitude + 1
                             /\ 2 * harmonics'[i].phase - 1
                                    <= harmonics[i].phase + target[i].phase
                             /\ harmonics[i].phase + target[i].phase
                                    <= 2 * harmonics'[i].phase + 1]_vars

\* C13: after loadPreset("Saw") on a spectrum with any prior contents,
\* getHarmonicAmplitude(k) is 1/(k+1) for k in [0, 32) and 0 for k in
\* [32, 128), and exactly the slots with amplitude above 0.001 are enabled.
C13_SawPreset ==
    [][LoadPreset("Saw") =>
          \A k \in HarmonicIndex :
              /\ getHarmonicAmplitude(harmonics', k) =
                     (IF k < 32 THEN FDiv(One, k + 1) ELSE 0)
              /\ harmonics'[k].enabled = (harmonics'[k].amplitude > THRESHOLD)
              /\ harmonics'[k].enabled = (k < 32)]_vars

\* loadPreset("Saw") has just replaced a spectrum that an earlier morphTo had
\* written.
C13_Witness ==
    /\ lastOp = "loadPreset"
    /\ nMorphs = 1
    /\ harmonics[0] = [amplitude |-> One, phase |-> 0, enabled |-> TRUE]
    /\ 32 * harmonics[31].amplitude = One
    /\ harmonics[31].enabled
    /\ harmonics[32] = [amplitude |-> 0, phase |-> 0, enabled |-> FALSE]
    /\ harmonics[MAX_HARMONICS - 1].amplitude = 0

\* ------------------------------------------------------------ EnvelopeProcessor actions
\* A stage of e is short when its rate is 0 (the level does not move) or its
\* time is at most MaxStageSamples samples.
ShortStage(rate, time, sr) ==
    rate = 0 \/ time * sr <= MaxStageSamples * TICKS_PER_SECOND

\* A control call (prepare or a setter) on the envelope: counted while a note
\* is active.
ControlCall ==
    IF isActive(envelope)
    THEN liveChanges < MaxLiveChanges /\ liveChanges' = liveChanges + 1
    ELSE UNCHANGED liveChanges

\* The envelopes on which notes are explored: idle ones, and active ones whose
\* three stages are short.
Explored(e) ==
    \/ e.currentState = "Idle"
    \/ /\ ShortStage(e.attackRate, e.attackTime, e.sampleRate)
       /\ ShortStage(e.decayRate, e.decayTime, e.sampleRate)
       /\ ShortStage(e.releaseRate, e.releaseTime, e.sampleRate)

EnvPrepare(sr) ==
    /\ Explored(envPrepare(envelope, sr))
    /\ envelope' = envPrepare(envelope, sr)
    /\ ControlCall
    /\ UNCHANGED <<releasedFrom, levelAtNoteOn, otherThanEnvelope>>

EnvNoteOn ==
    /\ Explored(envNoteOn(envelope))
    /\ envelope' = envNoteOn(envelope)
    /\ releasedFrom' = "none"
    /\ liveChanges' = 0
    /\ levelAtNoteOn' = envelope.currentLevel
    /\ UNCHANGED otherThanEnvelope

EnvNoteOff ==
    /\ Explored(envNoteOff(envelope))
    /\ envelope' = envNoteOff(envelope)
    /\ releasedFrom' = IF envelope.currentState = "Release"
                       THEN releasedFrom
                       ELSE envelope.currentState
    /\ UNCHANGED <<liveChanges, levelAtNoteOn, otherThanEnvelope>>

EnvSetAttack(seconds) ==
    /\ Explored(setAttack(envelope, seconds))
    /\ envelope' = setAttack(envelope, seconds)
    /\ ControlCall
    /\ UNCHANGED <<releasedFrom, levelAtNoteOn, otherThanEnvelope>>

EnvSetDecay(seconds) ==
    /\ Explored(setDecay(envelope, seconds))
    /\ envelope' = setDecay(envelope, seconds)
    /\ ControlCall
    /\ UNCHANGED <<releasedFrom, levelAtNoteOn, otherThanEnvelope>>

EnvSetSustain(level) ==
    /\ envelope' = setSustain(envelope, level)
    /\ ControlCall
    /\ UNCHANGED <<releasedFrom, levelAtNoteOn, otherThanEnvelope>>

EnvSetRelease(seconds) ==
    /\ Explored(setRelease(envelope, seconds))
    /\ envelope' = setRelease(envelope, seconds)
    /\ ControlCall
    /\ UNCHANGED <<releasedFrom, levelAtNoteOn, otherThanEnvelope>>

EnvGetNextSample ==
    /\ envelope' = envGetNextSample(envelope)
    /\ levelAtNoteOn' = -1
    /\ UNCHANGED <<releasedFrom, liveChanges, otherThanEnvelope>>

EnvelopeNext ==
    \/ \E sr \in SampleRateInputs : EnvPrepare(sr)
    \/ EnvNoteOn
    \/ EnvNoteOff
    \/ \E t \in TimeInputs : EnvSetAttack(t)
    \/ \E t \in TimeInputs : EnvSetDecay(t)
    \/ \E l \in SustainInputs : EnvSetSustain(l)
    \/ \E t \in TimeInputs : EnvSetRelease(t)
    \/ EnvGetNextSample

SpecEnvelope == Init /\ [][EnvelopeNext]_vars

\* The caller keeps pulling samples from the envelope.
FairSpecEnvelope == SpecEnvelope /\ WF_vars(EnvGetNextSample)

\* ------------------------------------------------------------ claims: EnvelopeProcessor
\* C8: after noteOff() issued in Sustain the levels returned by getNextSample
\* never increase, the state becomes Idle on exactly the call on which the
\* level becomes 0, and that call comes.
C8_ReleaseFromSustain ==
    /\ [][(releasedFrom = "Sustain" /\ EnvGetNextSample) =>
             /\ envelope'.currentLevel <= envelope.currentLevel
             /\ (envelope'.currentState = "Idle") = (envelope'.currentLevel = 0)]_vars
    /\ (releasedFrom = "Sustain" /\ envelope.currentState = "Release") ~>
           \/ envelope.currentState = "Idle" /\ envelope.currentLevel = 0
           \/ releasedFrom # "Sustain"

\* ------------------------------------------------------------ attack scenario
\* prepare(sampleRate), setAttack(attackTime), noteOn(), then getNextSample()
\* until the envelope has left Attack.
AtkPrepare(sr) ==
    /\ pc = "new"
    /\ envelope' = envPrepare(envelope, sr)
    /\ pc' = "prepared"
    /\ UNCHANGED <<attackCalls, otherThanAttack>>

AtkSetAttack(seconds) ==
    /\ pc = "prepared"
    /\ envelope' = setAttack(envelope, seconds)
    /\ pc' = "configured"
    /\ UNCHANGED <<attackCalls, otherThanAttack>>

AtkNoteOn ==
    /\ pc = "configured"
    /\ envelope' = envNoteOn(envelope)
    /\ pc' = "playing"
    /\ attackCalls' = 0
    /\ UNCHANGED otherThanAttack

AtkGetNextSample ==
    /\ pc = "playing"
    /\ envelope.currentState = "Attack"
    /\ envelope' = envGetNextSample(envelope)
    /\ attackCalls' = attackCalls + 1
    /\ UNCHANGED <<pc, otherThanAttack>>

AttackNext ==
    \/ \E sr \in AttackSampleRateInputs : AtkPrepare(sr)
    \/ \E t \in AttackTimeInputs : AtkSetAttack(t)
    \/ AtkNoteOn
    \/ AtkGetNextSample

SpecAttack == Init /\ [][AttackNext]_vars

\* attackTime * sampleRate, the nominal length of the attack, lies between
\* n - 1 and n + 1 samples.
WithinOneCall(e, n) ==
    /\ (n - 1) * TICKS_PER_SECOND <= e.attackTime * e.sampleRate
    /\ e.attackTime * e.sampleRate <= (n + 1) * TICKS_PER_SECOND

\* C9: after prepare(sampleRate), setAttack(attackTime) and noteOn() every
\* getNextSample call made in Attack raises the level; the envelope is still
\* in Attack below 1.0 before attackTime * sampleRate + 1 calls, and the call
\* that leaves Attack, within one call of attackTime * sampleRate, sets the
\* level to exactly 1.0 and the state to Decay.
C9_AttackReachesOne ==
    [][AtkGetNextSample =>
          /\ envelope'.currentLevel > envelope.currentLevel
          /\ envelope'.currentState \in {"Attack", "Decay"}
          /\ envelope'.currentState = "Attack" =>
                 /\ envelope'.currentLevel < One
                 /\ attackCalls' * TICKS_PER_SECOND
                        < envelope.attackTime * envelope.sampleRate + TICKS_PER_SECOND
          /\ envelope'.currentState = "Decay" =>
                 /\ envelope'.currentLevel = One
                 /\ WithinOneCall(envelope, attackCalls')]_vars

\* prepare(44100), setAttack(0.01), noteOn(): the 441st call has just moved
\* the envelope to Decay at level 1.0.
C9_Witness ==
    /\ pc = "playing"
    /\ envelope.sampleRate = 44100
    /\ envelope.attackTime = TICKS_PER_SECOND \div 100
    /\ envelope.currentState = "Decay"
    /\ envelope.currentLevel = One
    /\ attackCalls = 441

\* ------------------------------------------------------------ HarmonicOscillator actions
BankPrepare(sr) ==
    /\ oscillator' = bankPrepare(oscillator, sr)
    /\ UNCHANGED <<oscCalls, bankValue, bankSamples, otherThanBank>>

BankReset ==
    /\ oscillator' = bankReset(oscillator)
    /\ UNCHANGED <<oscCalls, bankValue, bankSamples, otherThanBank>>

BankSetFrequency(freq) ==
    /\ oscillator' = bankSetFrequency(oscillator, freq)
    /\ UNCHANGED <<oscCalls, bankValue, bankSamples, otherThanBank>>

BankSetHarmonicState(state) ==
    /\ oscillator' = bankSetHarmonicState(oscillator, state)
    /\ UNCHANGED <<oscCalls, bankValue, bankSamples, otherThanBank>>

BankSetGain(gain) ==
    /\ oscillator' = bankSetGain(oscillator, gain)
    /\ UNCHANGED <<oscCalls, bankValue, bankSamples, otherThanBank>>

BankGetNextSample ==
    /\ bankSamples < MaxBankSamples
    /\ oscillator' = bankGetNextSample(oscillator)
    /\ bankValue' = bankSampleValue(oscillator)
    /\ oscCalls' = bankSampleCalls(oscillator)
    /\ bankSamples' = bankSamples + 1
    /\ UNCHANGED otherThanBank

BankNext ==
    \/ \E sr \in SampleRateInputs : BankPrepare(sr)
    \/ BankReset
    \/ \E f \in FrequencyInputs : BankSetFrequency(f)
    \/ \E st \in BankSpectrumInputs : BankSetHarmonicState(st)
    \/ \E g \in GainInputs : BankSetGain(g)
    \/ BankGetNextSample

SpecBank == Init /\ [][BankNext]_vars

\* ------------------------------------------------------------ claims: HarmonicOscillator
\* C10: one HarmonicOscillator::getNextSample call invokes every oscillator's
\* getNextSample exactly once, so every oscillator is left as one call leaves
\* it, and returns masterGain times the sum of those single samples.
C10_EachOscillatorOnce ==
    [][BankGetNextSample =>
          /\ \A i \in HarmonicIndex :
                 /\ oscCalls'[i] = 1
                 /\ oscillator'.oscillators[i] =
                        oscGetNextSample(oscillator.oscillators[i])
          /\ bankValue' =
                 FMul(Sum([i \in HarmonicIndex |->
                              oscSampleValue(oscillator.oscillators[i])]),
                      oscillator.masterGain)]_vars

\* ------------------------------------------------------------ AdditiveVoice actions
VoicePrepare(sr) ==
    /\ Explored(envPrepare(envelope, sr))
    /\ ControlCall
    /\ oscillator' = bankPrepare(oscillator, sr)
    /\ envelope' = envPrepare(envelope, sr)
    /\ UNCHANGED <<voiceVars, otherThanVoice>>

\* juce::Synthesiser::startVoice records the note, then calls startNote.
VoiceStartNote(midiNoteNumber, velocity) ==
    /\ notesStarted < MaxNotes
    /\ Explored(envNoteOn(envelope))
    /\ currentlyPlayingNote' = midiNoteNumber
    /\ currentVelocity' = velocity
    /\ oscillator' = bankSetFrequency(oscillator, midiToFrequency(midiNoteNumber))
    /\ envelope' = envNoteOn(envelope)
    /\ liveChanges' = 0
    /\ stopMode' = "none"
    /\ notesStarted' = notesStarted + 1
    /\ UNCHANGED <<rendered, otherThanVoice>>

\* juce::Synthesiser calls stopNote on a voice that is playing a note.
VoiceStopNote(allowTailOff) ==
    /\ currentlyPlayingNote # NoNote
    /\ IF allowTailOff
       THEN /\ envelope' = envNoteOff(envelope)
            /\ UNCHANGED currentlyPlayingNote
       ELSE /\ currentlyPlayingNote' = NoNote
            /\ UNCHANGED envelope
    /\ stopMode' = IF allowTailOff THEN "tail" ELSE "hard"
    /\ UNCHANGED <<oscillator, liveChanges, currentVelocity, rendered, notesStarted,
                   otherThanVoice>>

VoiceRenderNextBlock(numSamples) ==
    /\ IF ~isActive(envelope)
       THEN /\ currentlyPlayingNote' = NoNote
            /\ rendered' = <<>>
            /\ UNCHANGED <<envelope, oscillator>>
       ELSE /\ envelope' = renderEnvelope(envelope, numSamples)
            /\ oscillator' = renderOscillator(oscillator, numSamples)
            /\ rendered' = renderOut(envelope, oscillator, currentVelocity, numSamples)
            /\ UNCHANGED currentlyPlayingNote
    /\ UNCHANGED <<liveChanges, currentVelocity, stopMode, notesStarted, otherThanVoice>>

VoiceSetHarmonicState(state) ==
    /\ oscillator' = bankSetHarmonicState(oscillator, state)
    /\ UNCHANGED <<envelope, liveChanges, voiceVars, otherThanVoice>>

VoiceSetEnvelope(attack, decay, sustain, release) ==
    /\ Explored(voiceSetEnvelope(envelope, attack, decay, sustain, release))
    /\ ControlCall
    /\ envelope' = voiceSetEnvelope(envelope, attack, decay, sustain, release)
    /\ UNCHANGED <<oscillator, voiceVars, otherThanVoice>>

VoiceNext ==
    \/ \E sr \in VoiceSampleRateInputs : VoicePrepare(sr)
    \/ \E n \in NoteInputs, v \in VelocityInputs : VoiceStartNote(n, v)
    \/ \E t \in BOOLEAN : VoiceStopNote(t)
    \/ \E n \in 1 .. MaxBlock : VoiceRenderNextBlock(n)
    \/ \E st \in VoiceSpectrumInputs : VoiceSetHarmonicState(st)
    \/ \E p \in EnvelopeInputs : VoiceSetEnvelope(p[1], p[2], p[3], p[4])

SpecVoice == Init /\ [][VoiceNext]_vars

\* The audio callback keeps running: the host calls renderNextBlock again and
\* again for every voice.
FairSpecVoice ==
    SpecVoice /\ WF_vars(\E n \in 1 .. MaxBlock : VoiceRenderNextBlock(n))

\* ------------------------------------------------------------ claims: AdditiveVoice
\* The cached rates are the ones calculateRates gives for the current
\* parameters (prepare or a time setter ran after the last parameter change).
RatesCurrent(e) == e = calculateRates(e)

\* A note is held on a voice whose envelope has sustain level 0.
HeldWithSustainZero ==
    /\ isActive(envelope)
    /\ stopMode = "none"
    /\ envelope.sustainLevel = 0
    /\ RatesCurrent(envelope)

\* C5: a voice whose envelope has sustainLevel 0 and small positive attack and
\* decay times, after prepare and noteOn and with no noteOff issued, reaches
\* Idle (isActive() false) after finitely many rendered samples.
C5_SustainZeroFreesVoice ==
    HeldWithSustainZero ~> (~isActive(envelope) \/ ~HeldWithSustainZero)

\* noteOff with tail-off has been issued on an active envelope whose rates are
\* current, and no noteOn has followed.
TailOffPending ==
    /\ isActive(envelope)
    /\ stopMode = "tail"
    /\ RatesCurrent(envelope)

\* C6: once noteOff (tail-off allowed) has been issued in any active envelope
\* state and no further noteOn arrives, repeated rendering eventually brings
\* the envelope to Idle with level 0.
C6_TailOffReachesIdle ==
    TailOffPending ~>
        \/ ~isActive(envelope) /\ envelope.currentLevel = 0
        \/ stopMode # "tail"
        \/ ~RatesCurrent(envelope)

\* C7: stopNote with allowTailOff = false frees the voice at once, and every
\* renderNextBlock call from then until the next noteOn adds nothing to the
\* output buffer.
C7_HardStopIsSilent ==
    [][/\ VoiceStopNote(FALSE) => currentlyPlayingNote' = NoNote
       /\ \A n \in 1 .. MaxBlock :
              (stopMode = "hard" /\ VoiceRenderNextBlock(n)) =>
                  \A k \in 1 .. Len(rendered') : rendered'[k] = 0]_vars

\* ------------------------------------------------------------ claims: envelope parameters
\* C15: once prepare has run, after every prepare, setAttack, setDecay,
\* setSustain and setRelease call the cached rates are the formulas on the
\* current parameters: prepare makes them so, and no later call breaks it.
C15_RatesFollowParameters ==
    [][/\ \A sr \in SampleRateInputs :
              EnvPrepare(sr) => RatesCurrent(envelope')
       /\ RatesCurrent(envelope) => RatesCurrent(envelope')]_vars

\* C16: an envelope in Idle returns 0 from getNextSample and stays in Idle
\* under getNextSample, noteOff, prepare and the four setters: only noteOn
\* moves it out of Idle.
C16_IdleStaysIdle ==
    /\ [](envelope.currentState = "Idle" =>
              ~isActive(envelope) /\ envSampleValue(envelope) = 0)
    /\ [][(envelope.currentState = "Idle" /\ envelope'.currentState # "Idle")
              => EnvNoteOn]_vars

\* C17: noteOn() issued in any state and at any level leaves the envelope in
\* Attack with level 0, and the first sample returned after it is one
\* attackRate step above 0 (no noteOff() having come in between), whatever the
\* level was before.
C17_NoteOnRestartsFromZero ==
    [][/\ EnvNoteOn =>
              /\ envelope'.currentState = "Attack"
              /\ envelope'.currentLevel = 0
       /\ (levelAtNoteOn >= 0 /\ releasedFrom = "none" /\ EnvGetNextSample) =>
              envSampleValue(envelope) = envelope.attackRate]_vars

\* noteOn() has found the envelope above level 0 in a state other than Idle.
C17_Witness ==
    /\ levelAtNoteOn > 0
    /\ envelope.currentState = "Attack"
    /\ envelope.currentLevel = 0
    /\ envelope.attackRate > 0

\* ------------------------------------------------------------ claims: oscillator phase
\* C18: the currentPhase of every oscillator of the bank lies in [0, 2 pi) after
\* every getNextSample call, also for harmonics whose frequency reaches or
\* exceeds the sample rate.
C18_PhaseInRange ==
    \A i \in HarmonicIndex :
        /\ oscillator.oscillators[i].currentPhase >= 0
        /\ oscillator.oscillators[i].currentPhase < TWO_PI

\* ------------------------------------------------------------ claims: unprepared envelope
\* Neither prepare() nor a parameter setter has been called on e: its sample
\* rate, times, sustain level and rates are those of the member initialisers.
Unprepared(e) ==
    [e EXCEPT !.currentState = "Idle", !.currentLevel = 0] = EnvelopeDefault

\* C19: on an envelope used without prepare() and without any setter, after
\* noteOn() the level rises on every getNextSample call and the envelope
\* reaches Decay after finitely many calls.
C19_UnpreparedAttackCompletes ==
    /\ [][(/\ Unprepared(envelope)
           /\ envelope.currentState = "Attack"
           /\ EnvGetNextSample) =>
              envelope'.currentLevel > envelope.currentLevel]_vars
    /\ (Unprepared(envelope) /\ envelope.currentState = "Attack") ~>
           \/ envelope.currentState = "Decay"
           \/ ~Unprepared(envelope)
           \/ releasedFrom # "none"

\* ------------------------------------------------------------ claims: envelope range
\* C20: after any interleaving of prepare, the four setters (setSustain with
\* any input), noteOn, noteOff and getNextSample, with positive sample rate and
\* times, currentLevel and the value getNextSample returns lie in [0, 1], and
\* the state is Idle only when currentLevel is 0.
C20_LevelInUnitRange ==
    /\ envelope.currentLevel >= 0
    /\ envelope.currentLevel <= One
    /\ envSampleValue(envelope) >= 0
    /\ envSampleValue(envelope) <= One
    /\ envelope.currentState = "Idle" => envelope.currentLevel = 0

\* The envelope holds at the sustain level that setSustain clamped to 1 from an
\* input above 1.
C20_Witness ==
    /\ envelope.currentState = "Sustain"
    /\ envelope.sustainLevel = One
    /\ envelope.currentLevel = One
    /\ envelope.attackRate > 0

=============================================================================
